---- MODULE Spec2Model ----
(***************************************************************************)
(* Model of the GADGET snapshot reader of pygadget.py: the header parse,   *)
(* the block layout computed from the header, the construction-time file   *)
(* check, random-access block reads restricted to one particle type, and   *)
(* spanning reads over the fragments of a multi-file snapshot.             *)
(*                                                                         *)
(* A snapshot file is a header record followed by a sequence of block      *)
(* records [key, lead, len, fill, trail]: a 4-byte leading marker, len     *)
(* payload bytes whose 4-byte words all hold fill, and a 4-byte trailing   *)
(* marker.  Words are stored in the byte order of the file; a read decodes *)
(* them in the byte order the reader believes the file has.  The host is   *)
(* little-endian, as the source assumes when it maps a natively read 256   *)
(* to '<'.                                                                 *)
(***************************************************************************)
EXTENDS Integers, Sequences, FiniteSets, TLC

VARIABLES disk, sim, last, gen, pc

vars == <<disk, sim, last, gen, pc>>

(***************************************************************************)
(* Bounds of the model.                                                    *)
(***************************************************************************)
MaxParticles == 2

MaxFileParticles == 1

MaxFragments == 2

MaxRows == 2

MaxSubhalos == 2

(***************************************************************************)
(* Fixed key lists of the program.                                         *)
(***************************************************************************)
particle_keys == <<"gas", "halo", "disk", "bulge", "stars", "bndry">>

block_keys ==
  <<"header", "pos", "vel", "id", "mass", "u", "rho", "ne", "nh", "hsml",
    "sfr", "age", "metals", "pot", "accel", "endt", "tstp", "esn", "esncold">>

element_keys ==
  <<"He", "C", "Mg", "O", "Fe", "Si", "H", "N", "Ne", "S", "Ca", "Zi">>

size_swaped_shifted == 256 * 256 * 256

size_swaped == 65536

size_checked == 256

data_size == 4

dims_two == 3 - 1

dims == 3

Types == {particle_keys[i] : i \in DOMAIN particle_keys}

Blocks == {block_keys[i] : i \in DOMAIN block_keys}

DataBlocks == Blocks \ {"header"}

ExtFlags == {"pot", "accel", "endt", "tstp"}

HeaderFlags == {"sfr", "feedback", "cooling", "stellar_age", "metals"}

EmptyDict == [k \in {} |-> 0]

EOF == -1

(***************************************************************************)
(* list.index and slices of the key lists.                                 *)
(***************************************************************************)
IndexOf(seq, x) == CHOOSE i \in DOMAIN seq : seq[i] = x

Before(seq, x) == SubSeq(seq, 1, IndexOf(seq, x) - 1)

After_inclusive(seq, x) == SubSeq(seq, IndexOf(seq, x), Len(seq))

After(seq, x) == SubSeq(seq, IndexOf(seq, x) + 1, Len(seq))

PrecedingBlocks == [k \in Blocks |-> Before(block_keys, k)]

PrecedingTypes == [k \in Types |-> Before(particle_keys, k)]

FollowingTypes == [k \in Types |-> After(particle_keys, k)]

RECURSIVE SumKeys(_, _)
SumKeys(keys, f) ==
  IF keys = <<>> THEN 0
  ELSE (IF Head(keys) \in DOMAIN f THEN f[Head(keys)] ELSE 0)
       + SumKeys(Tail(keys), f)

Min(a, b) == IF a < b THEN a ELSE b

Max(a, b) == IF a < b THEN b ELSE a

(***************************************************************************)
(* struct.unpack of a 4-byte word: the stored word v of a file written in  *)
(* byte order fo, decoded in byte order s.                                 *)
(***************************************************************************)
BSwap32(v) ==
  (v % 256) * 16777216 + ((v \div 256) % 256) * 65536
  + ((v \div 65536) % 256) * 256 + ((v \div 16777216) % 256)

Decode(s, fo, v) == IF s = fo THEN v ELSE BSwap32(v)

(***************************************************************************)
(* The file as a byte-addressed store of 4-byte words.                     *)
(***************************************************************************)
RECURSIVE BodyWord(_, _)
BodyWord(body, rel) ==
  IF body = <<>> THEN EOF
  ELSE LET b == Head(body)
       IN IF rel = 0 THEN b.lead
          ELSE IF rel < 4 + b.len THEN b.fill
          ELSE IF rel = 4 + b.len THEN b.trail
          ELSE BodyWord(Tail(body), rel - (8 + b.len))

WordAt(f, off) ==
  IF off = 0 THEN f.sentinel
  ELSE IF off < 4 + size_checked THEN 0
  ELSE IF off = 4 + size_checked THEN f.trailer
  ELSE BodyWord(f.body, off - (8 + size_checked))

RECURSIVE BodyLen(_)
BodyLen(body) ==
  IF body = <<>> THEN 0 ELSE 8 + Head(body).len + BodyLen(Tail(body))

FileSize(f) == 8 + size_checked + BodyLen(f.body)

(***************************************************************************)
(* Simulation._file_structure: the byte size of every block.               *)
(***************************************************************************)
FileStructure(h) ==
  LET total_number == SumKeys(particle_keys, h.particle_numbers)
      mass_number ==
        SumKeys(particle_keys,
                [k \in Types |->
                   IF h.particle_numbers[k] # 0 /\ h.particle_mass[k] = 0
                   THEN h.particle_numbers[k] ELSE 0])
      metals == Len(element_keys)
      size == total_number * data_size
      size_space == size * dims
      size_mass == mass_number * data_size
      size_gas == h.particle_numbers["gas"] * data_size
      size_stars == h.particle_numbers["stars"] * data_size
      size_baryons == size_gas + size_stars
      size_metals == size_baryons * metals
      keys ==
        {"header", "pos", "vel", "id", "mass", "u", "rho", "hsml"}
        \cup (IF h.flags["cooling"] # 0 THEN {"ne", "nh"} ELSE {})
        \cup (IF h.flags["sfr"] # 0 THEN {"sfr"} ELSE {})
        \cup (IF h.flags["stellar_age"] # 0 THEN {"age"} ELSE {})
        \cup (IF h.flags["metals"] # 0 THEN {"metals"} ELSE {})
        \cup (IF h.flags["pot"] THEN {"pot"} ELSE {})
        \cup (IF h.flags["accel"] THEN {"accel"} ELSE {})
        \cup (IF h.flags["endt"] THEN {"endt"} ELSE {})
        \cup (IF h.flags["tstp"] THEN {"tstp"} ELSE {})
        \cup (IF h.flags["feedback"] # 0 THEN {"esn", "esncold"} ELSE {})
      sizes ==
        [header |-> 256, pos |-> size_space, vel |-> size_space,
         id |-> IF h.use_longids THEN size * 2 ELSE size,
         mass |-> size_mass, u |-> size_gas, rho |-> size_gas,
         ne |-> size_gas, nh |-> size_gas, hsml |-> size_gas,
         sfr |-> size_gas, age |-> size_stars, metals |-> size_metals,
         pot |-> size, accel |-> size_space, endt |-> size_gas,
         tstp |-> size, esn |-> size_baryons, esncold |-> size_baryons]
  IN [k \in keys |-> sizes[k]]

(***************************************************************************)
(* Simulation._compute_offset: the particle_number dictionary of a block   *)
(* and the (offset, read_size, remainder) triple of one particle type.     *)
(***************************************************************************)
ParticleNumber_any_mass(h, block_type) ==
  CASE block_type \in {"id", "pos", "vel", "accel", "pot", "tstp"} ->
         h.particle_numbers
    [] block_type \in {"u", "rho", "ne", "nh", "hsml", "sfr", "endt"} ->
         [k \in {"gas"} |-> h.particle_numbers[k]]
    [] block_type \in {"esn", "esncold", "metals"} ->
         [k \in {"gas", "stars"} |-> h.particle_numbers[k]]
    [] block_type = "mass" ->
         [k \in {t \in Types : h.particle_numbers[t] # 0} |->
            h.particle_numbers[k]]
    [] block_type = "age" ->
         [k \in {"stars"} |-> h.particle_numbers[k]]
    [] OTHER -> EmptyDict

ParticleNumber(h, block_type) ==
  CASE block_type \in {"id", "pos", "vel", "accel", "pot", "tstp"} ->
         h.particle_numbers
    [] block_type \in {"u", "rho", "ne", "nh", "hsml", "sfr", "endt"} ->
         [k \in {"gas"} |-> h.particle_numbers[k]]
    [] block_type \in {"esn", "esncold", "metals"} ->
         [k \in {"gas", "stars"} |-> h.particle_numbers[k]]
    [] block_type = "mass" ->
         [k \in {t \in Types : h.particle_mass[t] = 0
                                /\ h.particle_numbers[t] # 0} |->
            h.particle_numbers[k]]
    [] block_type = "age" ->
         [k \in {"stars"} |-> h.particle_numbers[k]]
    [] OTHER -> EmptyDict

OffsetDim_narrow_ids(h, block_type) ==
  CASE block_type \in {"pos", "vel", "accel"} -> 3
    [] block_type = "metals" -> Len(element_keys)
    [] OTHER -> 1

OffsetDim(h, block_type) ==
  CASE block_type \in {"pos", "vel", "accel"} -> 3
    [] block_type = "id" /\ h.use_longids -> 2
    [] block_type = "metals" -> Len(element_keys)
    [] OTHER -> 1

ComputeOffset(h, block_type, particle_type) ==
  LET particle_number == ParticleNumber(h, block_type)
      dim == OffsetDim(h, block_type) * 4
      offset == SumKeys(PrecedingTypes[particle_type], particle_number)
      remainder == SumKeys(FollowingTypes[particle_type], particle_number)
  IN IF particle_type \notin DOMAIN particle_number
     THEN [err |-> "KeyError", offset |-> 0, read_size |-> 0, remainder |-> 0]
     ELSE [err |-> "none", offset |-> offset * dim,
           read_size |-> particle_number[particle_type] * dim,
           remainder |-> remainder * dim]

(***************************************************************************)
(* Simulation.read_block, lines 401-410: the file offset of the leading    *)
(* record marker of a block.                                               *)
(***************************************************************************)
BlockSkip(h, block_type) ==
  SumKeys(PrecedingBlocks[block_type],
          [k \in DOMAIN h.block_sizes |-> h.block_sizes[k] + 8])

(***************************************************************************)
(* Simulation._file_check, lines 343-360: the file position at which the   *)
(* sequential check reads the leading marker of a block.                   *)
(***************************************************************************)
FileCheckPos(h, block_type) ==
  SumKeys(PrecedingBlocks[block_type],
          [k \in {b \in DOMAIN h.block_sizes : h.block_sizes[b] > 0} |->
             4 + h.block_sizes[k] + 4])

(***************************************************************************)
(* Simulation._read_header: the sentinel decides the byte order, the       *)
(* header fields are stored on the handle as they are read, the trailing   *)
(* marker is checked and the block sizes are recomputed.  Fields that do   *)
(* not enter the layout (times, cosmology, totals) are left out.  leak     *)
(* counts the file handles the call opened and did not close.              *)
(***************************************************************************)
HeaderFields(h, f, s) ==
  [h EXCEPT
     !.swap = s,
     !.particle_numbers = [k \in Types |-> Decode(s, f.order, f.npart[k])],
     !.particle_mass = [k \in Types |-> f.mass[k]],
     !.flags = [k \in DOMAIN h.flags \cup HeaderFlags |->
                  IF k \in HeaderFlags THEN Decode(s, f.order, f.hflags[k])
                  ELSE h.flags[k]],
     !.file_number = Decode(s, f.order, f.file_number)]

HeaderTrailer(h1, f) ==
  IF Decode(h1.swap, f.order, f.trailer) # size_checked
  THEN [sim |-> h1, err |-> "NameError_header", leak |-> 1]
  ELSE [sim |-> [h1 EXCEPT !.block_sizes = FileStructure(h1)],
        err |-> "none", leak |-> 0]

HeaderSentinel(h, f, size) ==
  IF size # size_swaped /\ size # size_checked
  THEN [sim |-> h, err |-> "NameError_header", leak |-> 1]
  ELSE HeaderTrailer(
         HeaderFields(h, f, IF size = size_swaped THEN ">" ELSE "<"), f)

ReadHeader(h, fs) ==
  IF h.name \notin DOMAIN fs
  THEN [sim |-> h, err |-> "IOError", leak |-> 0]
  ELSE HeaderSentinel(h, fs[h.name],
                      Decode("<", fs[h.name].order, fs[h.name].sentinel))

(***************************************************************************)
(* Simulation._file_check: both markers of every block of positive size,   *)
(* in block order.  Returns the error and the block it was raised for.     *)
(***************************************************************************)
BlockMarkers(h, f, key, w1, w2) ==
  IF w1 = EOF THEN "struct.error"
  ELSE IF Decode(h.swap, f.order, w1) # h.block_sizes[key]
  THEN "NameError_block"
  ELSE IF w2 = EOF THEN "struct.error"
  ELSE IF Decode(h.swap, f.order, w2) # h.block_sizes[key]
  THEN "NameError_block"
  ELSE "none"

BlockCheck(h, f, key, pos) ==
  BlockMarkers(h, f, key, WordAt(f, pos),
               WordAt(f, pos + 4 + h.block_sizes[key]))

RECURSIVE FileCheckFrom(_, _, _)
FileCheckFrom(h, f, i) ==
  IF i > Len(block_keys) THEN [err |-> "none", key |-> "", leak |-> 0]
  ELSE IF block_keys[i] \notin DOMAIN h.block_sizes
          \/ ~(h.block_sizes[block_keys[i]] > 0)
  THEN FileCheckFrom(h, f, i + 1)
  ELSE IF BlockCheck(h, f, block_keys[i], FileCheckPos(h, block_keys[i]))
          # "none"
  THEN [err |-> BlockCheck(h, f, block_keys[i],
                           FileCheckPos(h, block_keys[i])),
        key |-> block_keys[i], leak |-> 1]
  ELSE FileCheckFrom(h, f, i + 1)

FileCheck(h, fs) == FileCheckFrom(h, fs[h.name], 1)

(***************************************************************************)
(* Simulation.read_block, lines 393-448: one block of one particle type    *)
(* read from the file of the handle, before the join with the identifiers. *)
(* start and nbytes are the byte range handed to the decoder.              *)
(***************************************************************************)
ItemSize(h, block_type) ==
  IF block_type = "id" /\ h.use_longids THEN 8 ELSE 4

Columns(block_type) ==
  CASE block_type \in {"pos", "vel", "accel"} -> 3
    [] block_type = "metals" -> Len(element_keys)
    [] OTHER -> 1

Failed(h, e, lk, sk) ==
  [sim |-> h, err |-> e, leak |-> lk, skip |-> sk, size |-> -1,
   start |-> -1, nbytes |-> 0, rows |-> 0, cols |-> 0, ndim |-> 0,
   nested |-> FALSE]

Loaded(h, skip, start, got, block_type, rows, cols, ndim) ==
  [sim |-> h, err |-> "none", leak |-> 0, skip |-> skip,
   size |-> h.block_sizes[block_type], start |-> start, nbytes |-> got,
   rows |-> rows, cols |-> cols, ndim |-> ndim, nested |-> FALSE]

(***************************************************************************)
(* Lines 437-448: the decoded values are reshaped to the block's           *)
(* dimensionality; nelem is the number of values decoded and ydim the      *)
(* header count of the particle type.                                      *)
(***************************************************************************)
Reshape(h, skip, start, got, block_type, nelem, ydim) ==
  IF block_type \in {"pos", "vel", "acc"}
  THEN IF nelem # ydim * 3 THEN Failed(h, "ValueError", 0, skip)
       ELSE Loaded(h, skip, start, got, block_type, ydim, 3, 2)
  ELSE IF block_type = "metals"
  THEN IF nelem # ydim * Len(element_keys)
       THEN Failed(h, "ValueError", 0, skip)
       ELSE Loaded(h, skip, start, got, block_type, ydim,
                   Len(element_keys), 2)
  ELSE Loaded(h, skip, start, got, block_type, nelem, 1, 1)

(***************************************************************************)
(* Lines 412-435: the leading marker w1 is checked, the offsets of the     *)
(* particle type are computed, got bytes are read at start and the         *)
(* trailing marker w2 is checked.  s is the byte order taken at line 393.  *)
(***************************************************************************)
CheckMarkers(h, s, f, block_type, particle_type, skip, co, start, got, w1, w2) ==
  IF w1 = EOF THEN Failed(h, "struct.error", 0, skip)
  ELSE IF Decode(s, f.order, w1) # h.block_sizes[block_type]
  THEN Failed(h, "NameError_block", 0, skip)
  ELSE IF co.err # "none" THEN Failed(h, "KeyError", 0, skip)
  ELSE IF w2 = EOF THEN Failed(h, "struct.error", 0, skip)
  ELSE IF Decode(s, f.order, w2) # h.block_sizes[block_type]
  THEN Failed(h, "NameError_block", 0, skip)
  ELSE Reshape(h, skip, start, got, block_type,
               got \div ItemSize(h, block_type),
               h.particle_numbers[particle_type])

ReadSlice(h, s, f, block_type, particle_type, skip, co, start, got) ==
  CheckMarkers(h, s, f, block_type, particle_type, skip, co, start, got,
               WordAt(f, skip), WordAt(f, start + got + co.remainder))

ReadAt(h, s, f, block_type, particle_type, skip, co, start) ==
  ReadSlice(h, s, f, block_type, particle_type, skip, co, start,
            Max(0, Min(co.read_size, FileSize(f) - start)))

ReadData(h, s, f, block_type, particle_type, skip, co) ==
  ReadAt(h, s, f, block_type, particle_type, skip, co, skip + 4 + co.offset)

(***************************************************************************)
(* Lines 393-410: the byte order s is taken from the handle before the     *)
(* header is read again; rh is the outcome of that _read_header call.      *)
(***************************************************************************)
ReadAfterHeader(rh, s, fs, block_type, particle_type) ==
  IF rh.err # "none" THEN Failed(rh.sim, rh.err, rh.leak, -1)
  ELSE IF block_type \notin DOMAIN rh.sim.block_sizes
  THEN Failed(rh.sim, "KeyError", 0, -1)
  ELSE ReadData(rh.sim, s, fs[rh.sim.name], block_type, particle_type,
                BlockSkip(rh.sim, block_type),
                ComputeOffset(rh.sim, block_type, particle_type))

ReadRaw(h0, fs, block_type, particle_type) ==
  ReadAfterHeader(ReadHeader(h0, fs), h0.swap, fs, block_type, particle_type)

(***************************************************************************)
(* Simulation.read_block, lines 450-466: the identifiers of the same       *)
(* particle type are read by a nested read_block and index the table; the  *)
(* table constructor rejects data whose shape does not fit the column      *)
(* names and the index.                                                    *)
(***************************************************************************)
Indexed(r, ids, block_type) ==
  IF ids.err # "none"
  THEN [Failed(ids.sim, ids.err, ids.leak, r.skip) EXCEPT !.nested = TRUE]
  ELSE IF r.cols # Columns(block_type) \/ r.rows # ids.rows
  THEN Failed(ids.sim, "ValueError", 0, r.skip)
  ELSE [r EXCEPT !.sim = ids.sim]

JoinIds(r, fs, block_type, particle_type) ==
  IF r.err # "none" \/ block_type = "id" THEN r
  ELSE Indexed(r, ReadRaw(r.sim, fs, "id", particle_type), block_type)

ReadBlock(h0, fs, block_type, particle_type) ==
  JoinIds(ReadRaw(h0, fs, block_type, particle_type), fs, block_type,
          particle_type)

(***************************************************************************)
(* Snapshot files handed to the reader.  A file is laid out as the format  *)
(* prescribes: after the header, every block of positive size in block     *)
(* order, each bracketed by two markers holding its size; a block whose    *)
(* flag is unset or whose particle domain is empty is not written.  One    *)
(* marker of the file may be damaged.                                      *)
(***************************************************************************)
DiskCount(k, c, m) ==
  CASE k \in {"pos", "vel", "id", "pot", "accel", "tstp"} ->
         SumKeys(particle_keys, c)
    [] k = "mass" ->
         SumKeys(particle_keys, [t \in Types |-> IF m[t] = 0 THEN c[t] ELSE 0])
    [] k \in {"u", "rho", "ne", "nh", "hsml", "sfr", "endt"} -> c["gas"]
    [] k = "age" -> c["stars"]
    [] k \in {"metals", "esn", "esncold"} -> c["gas"] + c["stars"]

DiskFlag(k, fl) ==
  CASE k \in {"ne", "nh"} -> "cooling" \in fl
    [] k = "sfr" -> "sfr" \in fl
    [] k = "age" -> "stellar_age" \in fl
    [] k = "metals" -> "metals" \in fl
    [] k \in {"esn", "esncold"} -> "feedback" \in fl
    [] k \in ExtFlags -> k \in fl
    [] OTHER -> TRUE

DiskWidth(k, longids) == IF k = "id" /\ longids THEN 8 ELSE 4

DiskDim(k) ==
  CASE k \in {"pos", "vel", "accel"} -> 3
    [] k = "metals" -> 12
    [] OTHER -> 1

DiskSize(k, c, m, fl, longids) ==
  IF DiskFlag(k, fl)
  THEN DiskCount(k, c, m) * DiskWidth(k, longids) * DiskDim(k)
  ELSE 0

RECURSIVE DiskBody(_, _, _, _, _, _)
DiskBody(keys, c, m, fl, longids, fill) ==
  IF keys = <<>> THEN <<>>
  ELSE LET k == Head(keys)
           n == DiskSize(k, c, m, fl, longids)
           rest == DiskBody(Tail(keys), c, m, fl, longids, fill)
       IN IF n > 0
          THEN <<[key |-> k, lead |-> n, len |-> n, fill |-> fill,
                  trail |-> n]>> \o rest
          ELSE rest

DiskFile(c, m, fl, longids, fill, order, nfiles) ==
  [order |-> order, sentinel |-> 256, npart |-> c, mass |-> m,
   hflags |-> [k \in HeaderFlags |-> IF k \in fl THEN 1 ELSE 0],
   file_number |-> nfiles, trailer |-> 256,
   body |-> DiskBody(Tail(block_keys), c, m, fl, longids, fill)]

Damage(f, d) ==
  CASE d.at = 0 -> f
    [] d.at = -1 -> [f EXCEPT !.sentinel = d.val]
    [] d.at = -2 -> [f EXCEPT !.trailer = d.val]
    [] d.side = "lead" -> [f EXCEPT !.body[d.at].lead = @ + 1]
    [] OTHER -> [f EXCEPT !.body[d.at].trail = @ + 1]

Counts(n) == {c \in [Types -> 0..n] : SumKeys(particle_keys, c) <= n}

AllFlags == ExtFlags \cup HeaderFlags

NoSim(name, multiple_files, use_longids, fl) ==
  [alive |-> FALSE, basename |-> name,
   name |-> IF multiple_files THEN name \o ".0" ELSE name,
   multiple_files |-> multiple_files, use_longids |-> use_longids,
   flags |-> [k \in ExtFlags |-> k \in fl],
   swap |-> "", particle_numbers |-> EmptyDict, particle_mass |-> EmptyDict,
   file_number |-> 0, block_sizes |-> EmptyDict]

NoOp ==
  [op |-> "init", bt |-> "", pt |-> "", err |-> "none", leak |-> 0,
   skip |-> -1, size |-> -1, start |-> -1, nbytes |-> 0, rows |-> 0,
   cols |-> 0, ndim |-> 0, offset |-> -1, read_size |-> -1,
   remainder |-> -1, msg |-> [what |-> "", file |-> ""]]

(***************************************************************************)
(* The text of a raised NameError: what it says was being read and the     *)
(* file it names.  Lines 202 and 270 format the file name into a message   *)
(* about the header; lines 352, 360, 415 and 429 format the block key.     *)
(***************************************************************************)
ErrorMessage(err, name, key) ==
  CASE err = "NameError_header" -> [what |-> "header", file |-> name]
    [] err = "NameError_block" -> [what |-> key, file |-> ""]
    [] OTHER -> [what |-> "", file |-> ""]

NoGen ==
  [active |-> FALSE, bt |-> "", pt |-> "", started |-> FALSE, i |-> 0,
   n |-> 0, results |-> <<>>, status |-> "none"]

NoDamage == [at |-> 0, side |-> "", val |-> 0]

(***************************************************************************)
(* The input files of Spec: every layout flag combination with all flags   *)
(* set, one flag unset or all flags unset; wide identifiers; a big-endian  *)
(* file; a payload whose words equal a marker; a damaged header marker; a  *)
(* damaged block marker.                                                   *)
(***************************************************************************)
CleanVariants ==
  {[off |-> o, longids |-> FALSE, fill |-> 0, order |-> "<"] :
     o \in {{}} \cup {{x} : x \in AllFlags} \cup {AllFlags}}
  \cup {[off |-> {}, longids |-> TRUE, fill |-> 0, order |-> "<"],
        [off |-> {}, longids |-> FALSE, fill |-> 0, order |-> ">"],
        [off |-> {}, longids |-> FALSE, fill |-> 4, order |-> "<"]}

HeaderDamages ==
  {[at |-> -1, side |-> "", val |-> 257],
   [at |-> -1, side |-> "", val |-> 65536],
   [at |-> -2, side |-> "", val |-> 257]}

BodyDamages(f) ==
  {[at |-> i, side |-> sd, val |-> 0] :
     i \in DOMAIN f.body, sd \in {"lead", "trail"}}

Start(f, name, multiple_files, longids, fl) ==
  /\ disk = [n \in {name} |-> f]
  /\ sim = NoSim(name, multiple_files, longids, fl)
  /\ last = NoOp
  /\ gen = NoGen
  /\ pc = "new"

(***************************************************************************)
(* Spec: a caller constructs one handle on one snapshot file and reads     *)
(* one block of one particle type.                                         *)
(***************************************************************************)
Init ==
  \E c \in Counts(MaxFileParticles), mz \in BOOLEAN :
    LET m == [t \in Types |-> IF mz THEN 0 ELSE 1]
        f0 == DiskFile(c, m, AllFlags, FALSE, 0, "<", 1)
        f4 == DiskFile(c, m, AllFlags, FALSE, 4, "<", 1)
    IN \/ \E v \in CleanVariants :
            Start(DiskFile(c, m, AllFlags \ v.off, v.longids, v.fill,
                           v.order, 1),
                  "snap", FALSE, v.longids, AllFlags \ v.off)
       \/ \E d \in HeaderDamages :
            Start(Damage(f0, d), "snap", FALSE, FALSE, AllFlags)
       \/ \E d \in BodyDamages(f4) :
            Start(Damage(f4, d), "snap", FALSE, FALSE, AllFlags)

(***************************************************************************)
(* Simulation.__init__, lines 175-178.  When the constructor raises, sim   *)
(* is the object as the raising call left it and it is never alive.        *)
(***************************************************************************)
Construct(skip_file_check) ==
  /\ pc = "new"
  /\ \E rh \in {ReadHeader(sim, disk)} :
       IF rh.err # "none"
       THEN /\ sim' = rh.sim
            /\ pc' = "failed"
            /\ last' = [NoOp EXCEPT !.op = "construct", !.err = rh.err,
                                    !.bt = "header", !.leak = rh.leak,
                                    !.msg = ErrorMessage(rh.err, rh.sim.name,
                                                         "header")]
       ELSE \E fc \in {IF skip_file_check
                       THEN [err |-> "none", key |-> "", leak |-> 0]
                       ELSE FileCheck(rh.sim, disk)} :
              IF fc.err # "none"
              THEN /\ sim' = rh.sim
                   /\ pc' = "failed"
                   /\ last' = [NoOp EXCEPT !.op = "construct",
                                           !.err = fc.err, !.bt = fc.key,
                                           !.leak = fc.leak,
                                           !.msg = ErrorMessage(fc.err,
                                                     rh.sim.name, fc.key)]
              ELSE /\ sim' = [rh.sim EXCEPT !.alive = TRUE]
                   /\ pc' = "ready"
                   /\ last' = [NoOp EXCEPT !.op = "construct"]
  /\ UNCHANGED <<disk, gen>>

(***************************************************************************)
(* Simulation.read_block with iter_files=False, the whole call.            *)
(***************************************************************************)
ReadBlockCall(block_type, particle_type) ==
  /\ pc = "ready"
  /\ \E r \in {ReadBlock(sim, disk, block_type, particle_type)} :
        /\ sim' = r.sim
        /\ last' = [NoOp EXCEPT
                      !.op = "read_block", !.bt = block_type,
                      !.pt = particle_type, !.err = r.err, !.leak = r.leak,
                      !.skip = r.skip, !.size = r.size, !.start = r.start,
                      !.nbytes = r.nbytes, !.rows = r.rows, !.cols = r.cols,
                      !.ndim = r.ndim,
                      !.msg = ErrorMessage(r.err, r.sim.name,
                                IF r.nested THEN "id" ELSE block_type)]
  /\ pc' = "done"
  /\ UNCHANGED <<disk, gen>>

Next ==
  \/ \E skip_file_check \in BOOLEAN : Construct(skip_file_check)
  \/ \E block_type \in DataBlocks, particle_type \in Types :
       ReadBlockCall(block_type, particle_type)

Spec == Init /\ [][Next]_vars

(***************************************************************************)
(* SpecLayout: the layout functions applied to a parsed header.  The       *)
(* initial state is a handle inside _read_header, all header fields        *)
(* stored, right before _file_structure runs.                              *)
(***************************************************************************)
ScenarioCounts ==
  [t \in Types |->
     CASE t = "gas" -> 100 [] t = "halo" -> 50 [] t = "stars" -> 10
       [] OTHER -> 0]

InitLayout ==
  \E c \in Counts(MaxParticles) \cup {ScenarioCounts},
     massive \in {{}} \cup {{t} : t \in Types} \cup {Types},
     allon \in BOOLEAN,
     longids \in BOOLEAN :
    LET fl == IF allon THEN AllFlags ELSE {}
    IN /\ disk = EmptyDict
       /\ sim = [NoSim("snap", FALSE, longids, fl) EXCEPT
                   !.swap = "<",
                   !.particle_numbers = c,
                   !.particle_mass =
                      [t \in Types |-> IF t \in massive THEN 1 ELSE 0],
                   !.flags = [k \in AllFlags |->
                                IF k \in ExtFlags THEN k \in fl
                                ELSE IF k \in fl THEN 1 ELSE 0],
                   !.file_number = 1]
       /\ last = NoOp
       /\ gen = NoGen
       /\ pc = "parsed"

FileStructureCall ==
  /\ pc = "parsed"
  /\ sim' = [sim EXCEPT !.block_sizes = FileStructure(sim), !.alive = TRUE]
  /\ last' = [NoOp EXCEPT !.op = "file_structure"]
  /\ pc' = "ready"
  /\ UNCHANGED <<disk, gen>>

ComputeOffsetCall(block_type, particle_type) ==
  /\ pc = "ready"
  /\ LET co == ComputeOffset(sim, block_type, particle_type)
     IN last' = [NoOp EXCEPT
                   !.op = "compute_offset", !.bt = block_type,
                   !.pt = particle_type, !.err = co.err,
                   !.offset = co.offset, !.read_size = co.read_size,
                   !.remainder = co.remainder]
  /\ pc' = "done"
  /\ UNCHANGED <<disk, sim, gen>>

NextLayout ==
  \/ FileStructureCall
  \/ \E block_type \in Blocks, particle_type \in Types :
       ComputeOffsetCall(block_type, particle_type)

SpecLayout == InitLayout /\ [][NextLayout]_vars

(***************************************************************************)
(* SpecIter: a caller constructs one handle on a snapshot stored in        *)
(* fragments and runs one spanning read to its end.  The fragments are     *)
(* well-formed files; the header of each declares its own fragment count   *)
(* and particle counts, and a file named by the bare base name may exist   *)
(* next to the fragments.                                                  *)
(***************************************************************************)
FragName(basename, i) == basename \o "." \o ToString(i)

FragCounts(two) ==
  [t \in Types |-> IF t = "gas" \/ (two /\ t = "stars") THEN 1 ELSE 0]

InitIter ==
  \E nfrag \in 1..MaxFragments,
     multiple_files \in BOOLEAN,
     nbase \in 1..MaxFragments :
    \E fn \in [0..(nfrag - 1) -> 0..MaxFragments],
       two \in [0..(nfrag - 1) -> BOOLEAN] :
      /\ two[0]
      /\ \A j \in 1..(nfrag - 1) : fn[j] \in {fn[0], nfrag}
      /\ multiple_files => nbase = 1
      /\ disk =
           [n \in {FragName("snap", j) : j \in 0..(nfrag - 1)}
                  \cup (IF multiple_files THEN {} ELSE {"snap"}) |->
              IF n = "snap"
              THEN DiskFile(FragCounts(TRUE), [t \in Types |-> 0], AllFlags,
                            FALSE, 0, "<", nbase)
              ELSE LET j == CHOOSE k \in 0..(nfrag - 1) :
                              n = FragName("snap", k)
                   IN DiskFile(FragCounts(two[j]), [t \in Types |-> 0],
                               IF two[j] THEN AllFlags
                               ELSE AllFlags \ {"stellar_age"},
                               FALSE, 0, "<", fn[j])]
      /\ sim = NoSim("snap", multiple_files, FALSE, AllFlags)
      /\ last = NoOp
      /\ gen = NoGen
      /\ pc = "new"

(***************************************************************************)
(* Simulation.read_block with iter_files=True: the generator object is     *)
(* returned and nothing of its body has run.                               *)
(***************************************************************************)
SpanningCall(block_type, particle_type) ==
  /\ pc = "ready"
  /\ gen' = [NoGen EXCEPT !.active = TRUE, !.bt = block_type,
                          !.pt = particle_type, !.status = "suspended"]
  /\ last' = [NoOp EXCEPT !.op = "read_block_iter", !.bt = block_type,
                          !.pt = particle_type]
  /\ pc' = "iterating"
  /\ UNCHANGED <<disk, sim>>

(***************************************************************************)
(* Simulation.read_block_iter: one resumption of the generator.  The first *)
(* one evaluates range(self.file_number).  Each fragment is read through a *)
(* shallow copy of the handle, which shares the flags dictionary with the  *)
(* originating handle.                                                     *)
(***************************************************************************)
NextFragment ==
  /\ pc = "iterating"
  /\ gen.status = "suspended"
  /\ \E n \in {IF gen.started THEN gen.n ELSE sim.file_number} :
       IF ~(gen.i < n)
       THEN /\ gen' = [gen EXCEPT !.started = TRUE, !.n = n,
                                  !.status = "exhausted"]
            /\ last' = [last EXCEPT !.op = "next", !.err = "StopIteration"]
            /\ pc' = "done"
            /\ sim' = sim
       ELSE \E snap \in {[sim EXCEPT !.name = FragName(sim.basename, gen.i)]} :
            \E r \in {ReadBlock(snap, disk, gen.bt, gen.pt)} :
              /\ sim' = [sim EXCEPT !.flags = r.sim.flags]
              /\ last' = [NoOp EXCEPT
                            !.op = "next", !.bt = gen.bt, !.pt = gen.pt,
                            !.err = r.err, !.leak = r.leak, !.skip = r.skip,
                            !.size = r.size, !.start = r.start,
                            !.nbytes = r.nbytes, !.rows = r.rows,
                            !.cols = r.cols, !.ndim = r.ndim,
                            !.msg = ErrorMessage(r.err, r.sim.name,
                                      IF r.nested THEN "id" ELSE gen.bt)]
              /\ IF r.err = "none"
                 THEN /\ gen' = [gen EXCEPT
                                   !.started = TRUE, !.n = n, !.i = @ + 1,
                                   !.results =
                                      Append(@, [name |-> snap.name,
                                                 index |-> gen.i,
                                                 rows |-> r.rows,
                                                 cols |-> r.cols])]
                      /\ pc' = "iterating"
                 ELSE /\ gen' = [gen EXCEPT !.started = TRUE, !.n = n,
                                            !.status = "error"]
                      /\ pc' = "done"
  /\ UNCHANGED disk

NextIter ==
  \/ \E skip_file_check \in BOOLEAN : Construct(skip_file_check)
  \/ \E block_type \in DataBlocks, particle_type \in Types :
       SpanningCall(block_type, particle_type)
  \/ NextFragment

SpecIter == InitIter /\ [][NextIter]_vars

(***************************************************************************)
(* The layout as the format describes it, in terms of the header fields    *)
(* held by the handle: the particle-type domain of a block, its element    *)
(* width and its dimensionality.                                           *)
(***************************************************************************)
Structured == pc \in {"ready", "done"} /\ sim.alive

MasslessCount ==
  SumKeys(particle_keys,
          [t \in Types |->
             IF sim.particle_mass[t] = 0 THEN sim.particle_numbers[t] ELSE 0])

BlockDomain(k) ==
  CASE k \in {"pos", "vel", "id", "pot", "accel", "tstp"} -> Types
    [] k = "mass" -> {t \in Types : sim.particle_mass[t] = 0
                                    /\ sim.particle_numbers[t] # 0}
    [] k \in {"u", "rho", "ne", "nh", "hsml", "sfr", "endt"} -> {"gas"}
    [] k = "age" -> {"stars"}
    [] k \in {"metals", "esn", "esncold"} -> {"gas", "stars"}
    [] OTHER -> {}

DomainCount(k) ==
  SumKeys(particle_keys,
          [t \in BlockDomain(k) |-> sim.particle_numbers[t]])

RowBytes(k) == DiskWidth(k, sim.use_longids) * DiskDim(k)

PrecedingCount(k, pt) ==
  SumKeys(Before(particle_keys, pt),
          [t \in BlockDomain(k) |-> sim.particle_numbers[t]])

(***************************************************************************)
(* C4: every block size computed by _file_structure is the particle count  *)
(* of the block's domain times the element width (4 bytes, 8 for wide      *)
(* identifiers) times the dimensionality (3 for pos, vel, accel, 12 for    *)
(* metals, 1 otherwise); for the counts gas 100, halo 50, stars 10, narrow *)
(* identifiers and all flags set the sizes are pos 1920, id 640, the gas   *)
(* blocks 400, age 40 and metals 5280.                                     *)
(***************************************************************************)
C4_BlockSizes ==
  Structured =>
    /\ \A k \in DOMAIN sim.block_sizes \ {"header"} :
         sim.block_sizes[k] = DomainCount(k) * RowBytes(k)
    /\ (/\ sim.particle_numbers = ScenarioCounts
        /\ ~sim.use_longids
        /\ \A k \in {"cooling", "sfr", "stellar_age", "metals"} :
             sim.flags[k] # 0)
       => /\ sim.block_sizes["pos"] = 1920
          /\ sim.block_sizes["id"] = 640
          /\ \A k \in {"u", "rho", "hsml", "ne", "nh", "sfr"} :
               sim.block_sizes[k] = 400
          /\ sim.block_sizes["age"] = 40
          /\ sim.block_sizes["metals"] = 5280

C4_Witness ==
  /\ Structured
  /\ sim.particle_numbers = ScenarioCounts
  /\ ~sim.use_longids
  /\ "metals" \in DOMAIN sim.block_sizes
  /\ sim.block_sizes["metals"] = 5280
  /\ sim.block_sizes["pos"] = 1920

(***************************************************************************)
(* C5: for every block and every particle type of the block's domain,      *)
(* _compute_offset returns as offset the row size (width x dimensionality) *)
(* times the counts of the domain types preceding the requested type, and  *)
(* as read size the row size times the count of the requested type; pos    *)
(* for stars with gas 100, halo 50, stars 10 skips 150 rows and reads 10   *)
(* rows of 3 columns.                                                      *)
(***************************************************************************)
C5_OffsetAndReadSize ==
  (last.op = "compute_offset" /\ last.pt \in BlockDomain(last.bt)) =>
    /\ last.err = "none"
    /\ last.offset = RowBytes(last.bt) * PrecedingCount(last.bt, last.pt)
    /\ last.read_size = RowBytes(last.bt) * sim.particle_numbers[last.pt]
    /\ (/\ sim.particle_numbers = ScenarioCounts
        /\ last.bt = "pos"
        /\ last.pt = "stars")
       => (last.offset = 150 * 12 /\ last.read_size = 10 * 12)

C5_Witness ==
  /\ last.op = "compute_offset"
  /\ sim.particle_numbers = ScenarioCounts
  /\ last.bt = "pos"
  /\ last.pt = "stars"
  /\ last.offset = 1800
  /\ last.read_size = 120

(***************************************************************************)
(* C7, as claimed: a type with non-zero header mass is never in the mass   *)
(* block's domain, and a type with zero header mass always is, also when   *)
(* its particle count is 0.                                                *)
(***************************************************************************)
C7_ZeroMassAlwaysInDomain ==
  Structured =>
    \A t \in Types :
      /\ sim.particle_mass[t] # 0 => t \notin DOMAIN ParticleNumber(sim, "mass")
      /\ sim.particle_mass[t] = 0 => t \in DOMAIN ParticleNumber(sim, "mass")

(***************************************************************************)
(* C7, amended: a type with non-zero header mass is never in the mass      *)
(* block's domain and adds nothing to its size, offsets or remainders; a   *)
(* type with zero header mass is in the domain exactly when its particle   *)
(* count is non-zero.                                                      *)
(***************************************************************************)
C7_MassDomain ==
  Structured =>
    /\ \A t \in Types :
         t \in DOMAIN ParticleNumber(sim, "mass")
           <=> (sim.particle_mass[t] = 0 /\ sim.particle_numbers[t] # 0)
    /\ sim.block_sizes["mass"] = 4 * MasslessCount
    /\ (last.op = "compute_offset" /\ last.bt = "mass"
        /\ last.err = "none") =>
         /\ sim.particle_mass[last.pt] = 0
         /\ last.offset + last.read_size + last.remainder = 4 * MasslessCount
         /\ last.offset =
              4 * SumKeys(Before(particle_keys, last.pt),
                          [t \in {x \in Types : sim.particle_mass[x] = 0} |->
                             sim.particle_numbers[t]])

C7_Witness ==
  /\ last.op = "compute_offset"
  /\ last.bt = "mass"
  /\ last.err = "none"
  /\ last.offset > 0
  /\ \E t \in Types :
       sim.particle_mass[t] # 0 /\ sim.particle_numbers[t] # 0
  /\ \E t \in Types :
       sim.particle_mass[t] = 0 /\ sim.particle_numbers[t] = 0

(***************************************************************************)
(* Outcomes of a finished read_block call.                                 *)
(***************************************************************************)
ReadDone == pc = "done" /\ last.op = "read_block"

FormatErrors == {"NameError_header", "NameError_block", "struct.error",
                 "IOError"}

Present(k) == k \in DOMAIN sim.block_sizes /\ sim.block_sizes[k] > 0

ZeroParticles(k, pt) ==
  pt \notin BlockDomain(k) \/ sim.particle_numbers[pt] = 0

NativeSentinel == Decode("<", disk[sim.name].order, disk[sim.name].sentinel)

(***************************************************************************)
(* C1: the file offset at which read_block looks for the leading marker of *)
(* a block is the sum of (size + 8) over the preceding blocks that are     *)
(* present on disk (size > 0), absent blocks adding nothing, which is the  *)
(* position at which _file_check finds the block.                          *)
(***************************************************************************)
C1_OffsetSkipsPresentBlocksOnly ==
  (ReadDone /\ last.skip # -1 /\ Present(last.bt)) =>
    /\ last.skip =
         SumKeys(PrecedingBlocks[last.bt],
                 [k \in {b \in Blocks : Present(b)} |-> sim.block_sizes[k] + 8])
    /\ last.skip = FileCheckPos(sim, last.bt)

(***************************************************************************)
(* C2: read_block on a block that is not present for the header and flags  *)
(* (flag unset, or computed size 0) ends in an error and returns no data.  *)
(***************************************************************************)
C2_AbsentBlockIsAnError ==
  (ReadDone /\ last.err \notin {"NameError_header", "IOError"}
   /\ ~Present(last.bt)) =>
    last.err # "none"

(***************************************************************************)
(* C3: read_block on a present block succeeds only if the leading and the  *)
(* trailing record marker of that block both equal the size computed by    *)
(* _file_structure.                                                        *)
(***************************************************************************)
C3_SuccessNeedsBothMarkers ==
  (ReadDone /\ last.err = "none" /\ Present(last.bt)) =>
    LET f == disk[sim.name]
    IN \E i \in DOMAIN f.body :
         /\ f.body[i].key = last.bt
         /\ Decode(sim.swap, f.order, f.body[i].lead) = sim.block_sizes[last.bt]
         /\ Decode(sim.swap, f.order, f.body[i].trail) = sim.block_sizes[last.bt]

(***************************************************************************)
(* C6: read_block for a present block and a particle type that has no      *)
(* particles in it (header count 0, or type outside the block's domain)    *)
(* returns an empty result and never an error; format errors of the file   *)
(* are left aside.                                                         *)
(***************************************************************************)
C6_ZeroParticlesGiveEmptyResult ==
  (ReadDone /\ Present(last.bt) /\ ZeroParticles(last.bt, last.pt)
   /\ last.err \notin FormatErrors) =>
    (last.err = "none" /\ last.rows = 0)

(***************************************************************************)
(* C8: _read_header sorts the leading sentinel into three outcomes: 256    *)
(* read natively gives native byte order, the byte-swapped 256 gives the   *)
(* reversed byte order, any other value is a fatal format error and no     *)
(* header field is accepted.                                               *)
(***************************************************************************)
C8_SentinelClassification ==
  pc # "new" =>
    /\ NativeSentinel = 256 => sim.swap = "<"
    /\ NativeSentinel = BSwap32(256) => sim.swap = ">"
    /\ NativeSentinel \notin {256, BSwap32(256)} =>
         /\ pc = "failed"
         /\ last.err = "NameError_header"
         /\ sim.swap = ""
         /\ sim.particle_numbers = EmptyDict
         /\ sim.particle_mass = EmptyDict
         /\ DOMAIN sim.flags = ExtFlags
         /\ sim.block_sizes = EmptyDict

C8_Witness ==
  /\ pc = "failed"
  /\ last.op = "construct"
  /\ last.err = "NameError_header"
  /\ NativeSentinel = 257
  /\ sim.swap = ""

(***************************************************************************)
(* C9: for every present block and every particle type with particles in   *)
(* it, the table read_block returns has as many rows as the header counts  *)
(* for the type and as many columns as the block's dimensionality: 3 for   *)
(* pos, vel and accel, 12 for metals, 1 for a scalar block; format errors  *)
(* of the file are left aside.                                             *)
(***************************************************************************)
C9_TableShape ==
  (ReadDone /\ Present(last.bt) /\ last.pt \in BlockDomain(last.bt)
   /\ sim.particle_numbers[last.pt] > 0
   /\ last.err \notin FormatErrors) =>
    /\ last.err = "none"
    /\ last.rows = sim.particle_numbers[last.pt]
    /\ last.cols = DiskDim(last.bt)

(***************************************************************************)
(* C10: a spanning read produces exactly file_number fragment results, one *)
(* per fragment index 0 .. file_number-1, each read from '<basename>.<i>', *)
(* in increasing fragment order, file_number being the one declared by the *)
(* header of fragment 0.                                                   *)
(***************************************************************************)
C10_OneResultPerFragment ==
  (gen.active /\ gen.status = "exhausted") =>
    LET n0 == disk[FragName(sim.basename, 0)].file_number
    IN /\ Len(gen.results) = n0
       /\ \A k \in DOMAIN gen.results :
            /\ gen.results[k].index = k - 1
            /\ gen.results[k].name = FragName(sim.basename, k - 1)

(***************************************************************************)
(* C11: once a header parse, a construction-time file check or a block     *)
(* read has finished, normally or by raising a format error, no file       *)
(* handle the operation opened is still open.                              *)
(***************************************************************************)
C11_NoHandleLeftOpen ==
  (pc \in {"ready", "failed", "done"} /\ last.op \in {"construct", "read_block"})
    => last.leak = 0

(***************************************************************************)
(* filter_bloc_by_ids.  A block is the sequence of its rows in file order; *)
(* a row is its identifier (the index label) and whether its data hold a   *)
(* NaN.  Positions are 0-based as in the code; sequences are 1-based.      *)
(***************************************************************************)
Ids == 1..(MaxRows + 1)

Orderings(S) ==
  {p \in [1..Cardinality(S) -> S] :
     \A i, j \in 1..Cardinality(S) : i # j => p[i] # p[j]}

RECURSIVE SortedSeq(_)
SortedSeq(S) ==
  IF S = {} THEN <<>>
  ELSE <<CHOOSE x \in S : \A y \in S : x <= y>>
       \o SortedSeq(S \ {CHOOSE x \in S : \A y \in S : x <= y})

Range(seq) == {seq[k] : k \in DOMAIN seq}

IndexValues(block) == [k \in DOMAIN block |-> block[k].id]

IndexMax(ind) == CHOOSE x \in Range(ind) : \A y \in Range(ind) : y <= x

(***************************************************************************)
(* ndarray.argsort of unique identifiers, as 0-based positions.            *)
(***************************************************************************)
ArgSort(ind) ==
  CHOOSE p \in Orderings(0..(Len(ind) - 1)) :
    \A i, j \in DOMAIN p : i < j => ind[p[i] + 1] < ind[p[j] + 1]

(***************************************************************************)
(* ndarray.searchsorted(v, sorter=sorter), side 'left': the number of      *)
(* identifiers smaller than v.                                             *)
(***************************************************************************)
SearchSorted(ind, sorter, v) ==
  Cardinality({k \in DOMAIN sorter : ind[sorter[k] + 1] < v})

UseSorter_identity(ind, sorter) ==
  IF sorter = <<>> THEN ArgSort(ind) ELSE [k \in DOMAIN ind |-> k - 1]

UseSorter(ind, sorter) ==
  IF sorter = <<>> THEN ArgSort(ind) ELSE sorter

FilterRaised(e, sorter, i) ==
  [err |-> e, rows |-> <<>>, sorter |-> sorter, gathered |-> i]

(***************************************************************************)
(* DataFrame.loc with a list of labels, then dropna: a label that is not   *)
(* in the frame gives a row of NaN, unless no label of a non-empty list is *)
(* in the frame, which raises KeyError; dropna removes every row that      *)
(* holds a NaN.                                                            *)
(***************************************************************************)
LocRow(df, label) ==
  IF \E j \in DOMAIN df : df[j].id = label
  THEN df[CHOOSE j \in DOMAIN df : df[j].id = label]
  ELSE [id |-> label, nan |-> TRUE]

DropNa(df) == SelectSeq(df, LAMBDA r : ~r.nan)

FilterLoc(df, ids, sorter, i) ==
  IF ids # <<>> /\ \A k \in DOMAIN ids : \A j \in DOMAIN df : df[j].id # ids[k]
  THEN FilterRaised("KeyError", sorter, i)
  ELSE [err |-> "none",
        rows |-> DropNa([k \in DOMAIN ids |-> LocRow(df, ids[k])]),
        sorter |-> sorter, gathered |-> i]

FilterGather(block, ids, sorter, i) ==
  IF \E k \in DOMAIN i : i[k] + 1 \notin DOMAIN sorter
  THEN FilterRaised("IndexError", sorter, i)
  ELSE FilterLoc([k \in DOMAIN i |-> block[sorter[i[k] + 1] + 1]], ids,
                 sorter, i)

FilterSearch(block, ind, ids, sorter) ==
  FilterGather(block, ids, sorter,
               SortedSeq({SearchSorted(ind, sorter, ids[k]) :
                            k \in DOMAIN ids}))

FilterSorted(block, ind, ids, sorter) ==
  IF ind = <<>> THEN FilterRaised("ValueError", sorter, <<>>)
  ELSE FilterSearch(block, ind,
                    SelectSeq(ids, LAMBDA v : v <= IndexMax(ind)), sorter)

filter_bloc_by_ids(block, ids, sorter) ==
  FilterSorted(block, IndexValues(block), ids,
               UseSorter(IndexValues(block), sorter))

(***************************************************************************)
(* SpecFilter: a caller holds one block, filters it with no permutation    *)
(* and filters it again with the permutation the first call returned.      *)
(* sim holds the block and last the outcome of the latest call.            *)
(***************************************************************************)
BlockSet ==
  UNION {{b \in [1..n -> [id : Ids, nan : BOOLEAN]] :
            \A i, j \in 1..n : i # j => b[i].id # b[j].id} : n \in 0..MaxRows}

Requests ==
  {<<>>} \cup {<<a>> : a \in Ids} \cup {<<a, b>> : a, b \in Ids}

OwnOrders(block) ==
  {[k \in DOMAIN p |-> p[k]] : p \in Orderings(Range(IndexValues(block)))}

InitFilter ==
  \E b \in BlockSet :
    /\ sim = [block |-> b]
    /\ disk = <<>>
    /\ last = [op |-> "init"]
    /\ gen = NoGen
    /\ pc = "block"

FilterOutcome(op, ids, sorter, r) ==
  [op |-> op, ids |-> ids, given |-> sorter, err |-> r.err, rows |-> r.rows,
   sorter |-> r.sorter, gathered |-> r.gathered]

FilterCall(ids) ==
  /\ pc = "block"
  /\ last' = FilterOutcome("filter", ids, <<>>,
                           filter_bloc_by_ids(sim.block, ids, <<>>))
  /\ pc' = "filtered"
  /\ UNCHANGED <<disk, sim, gen>>

FilterAgain(ids) ==
  /\ pc = "filtered"
  /\ last.err = "none"
  /\ last' = FilterOutcome("filter_again", ids, last.sorter,
                           filter_bloc_by_ids(sim.block, ids, last.sorter))
  /\ pc' = "refiltered"
  /\ UNCHANGED <<disk, sim, gen>>

NextFilter ==
  \/ \E ids \in Requests \cup OwnOrders(sim.block) : FilterCall(ids)
  \/ \E ids \in Requests : FilterAgain(ids)

SpecFilter == InitFilter /\ [][NextFilter]_vars

RowOf(block, label) == block[CHOOSE j \in DOMAIN block : block[j].id = label]

(***************************************************************************)
(* C12: filtering a block of unique identifiers by the full set of its own *)
(* identifiers, in any order and with no permutation, returns every row    *)
(* exactly once, unchanged, in the order of the supplied identifiers.      *)
(***************************************************************************)
C12_RoundTrip ==
  (pc = "filtered" /\ last.ids \in OwnOrders(sim.block)) =>
    /\ last.err = "none"
    /\ last.rows = [k \in DOMAIN last.ids |-> RowOf(sim.block, last.ids[k])]

(***************************************************************************)
(* C13: on a non-empty block every list of requested ids is filtered       *)
(* without error, the result holds exactly the rows whose identifier is    *)
(* requested, and every gathered position is within the block.             *)
(***************************************************************************)
C13_FilterTotal ==
  (pc = "filtered" /\ sim.block # <<>>
   /\ \A k \in DOMAIN sim.block : ~sim.block[k].nan) =>
    /\ last.err = "none"
    /\ \A k \in DOMAIN last.gathered : last.gathered[k] < Len(sim.block)
    /\ Range(last.rows) =
         {sim.block[k] : k \in {j \in DOMAIN sim.block :
                                  sim.block[j].id \in Range(last.ids)}}

(***************************************************************************)
(* C14: a call with the permutation an earlier call on the same block      *)
(* returned gives the rows of a call with no permutation and hands the     *)
(* supplied permutation back unchanged; the first call, given none,        *)
(* computed the one that sorts the identifiers.                            *)
(***************************************************************************)
C14_PermutationReuse ==
  /\ pc = "refiltered" =>
       /\ last.given # <<>>
       /\ last.sorter = last.given
       /\ last.err = filter_bloc_by_ids(sim.block, last.ids, <<>>).err
       /\ last.rows = filter_bloc_by_ids(sim.block, last.ids, <<>>).rows
  /\ (pc = "filtered" /\ last.err = "none") =>
       last.sorter = ArgSort(IndexValues(sim.block))

C14_Witness ==
  /\ pc = "refiltered"
  /\ Len(sim.block) = MaxRows
  /\ sim.block[1].id > sim.block[2].id
  /\ last.err = "none"
  /\ Len(last.rows) = 2
  /\ last.rows[1].id < last.rows[2].id

(***************************************************************************)
(* Fof: a friends-of-friends catalogue stored in fragments.  Fragment i is *)
(* the group table group_tab.<i> and the identifier stream group_ids.<i>.  *)
(* A group of a table stands for its row in each of the six arrays; the    *)
(* value at position p of the stream of fragment i is written 10 * i + p.  *)
(***************************************************************************)
array_keys ==
  <<"grouplen", "groupoffset", "grouplentype", "groupmasstype", "groupcm",
    "groupsfr">>

TabName(i) == FragName("group_tab", i)

IdsName(i) == FragName("group_ids", i)

RECURSIVE SumLen(_)
SumLen(runs) ==
  IF runs = <<>> THEN 0 ELSE Len(Head(runs)) + SumLen(Tail(runs))

RECURSIVE Flatten(_)
Flatten(seqs) ==
  IF seqs = <<>> THEN <<>> ELSE Head(seqs) \o Flatten(Tail(seqs))

(***************************************************************************)
(* numpy.fromfile(f, count=count) at stream position cur: the items that   *)
(* are there, at most count of them.                                       *)
(***************************************************************************)
FromFile(stream, cur, count) ==
  SubSeq(stream, cur + 1, Min(cur + count, Len(stream)))

(***************************************************************************)
(* Fof._read_header: totngroups and ntask of fragment 0.                   *)
(***************************************************************************)
FofReadHeader ==
  /\ pc = "fof_new"
  /\ sim' = [sim EXCEPT !.totngroups = disk[TabName(0)].totngroups,
                        !.ntask = disk[TabName(0)].ntask]
  /\ last' = [op |-> "_read_header", err |-> "none"]
  /\ pc' = "fof_header"
  /\ UNCHANGED <<disk, gen>>

(***************************************************************************)
(* Fof._load_catalogue: the rows one fragment holds for one array, the     *)
(* loop over the fragments and the final setattr of the six arrays.        *)
(***************************************************************************)
TableData(f, key) ==
  [j \in 1..f.ngroups |->
     IF key = "grouplentype" THEN f.groups[j].lentype
     ELSE [key |-> key, frag |-> f.groups[j].frag, row |-> j]]

AddFragment(acc, f) ==
  [value |->
     IF ~(f.ngroups > 0) THEN acc.value
     ELSE IF acc.totngroups = 0
     THEN [k \in Range(array_keys) |-> TableData(f, k)]
     ELSE [k \in Range(array_keys) |-> acc.value[k] \o TableData(f, k)],
   totngroups |->
     IF f.ngroups > 0 THEN acc.totngroups + f.ngroups ELSE acc.totngroups,
   ngroups |-> Append(acc.ngroups, f.ngroups),
   nids |-> Append(acc.nids, f.nids),
   err |-> "none"]

RECURSIVE LoadCatalogueFrom(_, _, _, _)
LoadCatalogueFrom(fs, ntask, i, acc) ==
  IF ~(i < ntask)
  THEN IF \E k \in Range(array_keys) : k \notin DOMAIN acc.value
       THEN [acc EXCEPT !.err = "KeyError"]
       ELSE acc
  ELSE IF TabName(i) \notin DOMAIN fs THEN [acc EXCEPT !.err = "IOError"]
  ELSE LoadCatalogueFrom(fs, ntask, i + 1, AddFragment(acc, fs[TabName(i)]))

FofLoadCatalogue ==
  /\ pc = "fof_header"
  /\ \E r \in {LoadCatalogueFrom(disk, sim.ntask, 0,
                                 [value |-> EmptyDict, totngroups |-> 0,
                                  ngroups |-> <<>>, nids |-> <<>>,
                                  err |-> "none"])} :
       /\ sim' = [sim EXCEPT !.ngroups = r.ngroups, !.nids = r.nids,
                             !.arrays = IF r.err = "none" THEN r.value
                                        ELSE EmptyDict]
       /\ last' = [op |-> "_load_catalogue", err |-> r.err]
       /\ pc' = IF r.err = "none" THEN "fof_catalogue" ELSE "failed"
  /\ UNCHANGED <<disk, gen>>

(***************************************************************************)
(* Fof._load_ids: for every group of every fragment, one run per particle  *)
(* type read from the fragment's stream; group is the global group index.  *)
(***************************************************************************)
GroupIndex_local(group, j) == j

GroupIndex(group, j) == group

RECURSIVE GroupRuns(_, _, _, _)
GroupRuns(stream, cur, counts, keys) ==
  IF keys = <<>> THEN <<>>
  ELSE <<FromFile(stream, cur, counts[Head(keys)])>>
       \o GroupRuns(stream,
                    cur + Len(FromFile(stream, cur, counts[Head(keys)])),
                    counts, Tail(keys))

RECURSIVE FragmentRuns(_, _, _, _, _, _)
FragmentRuns(stream, cur, lentype, group, j, n) ==
  IF ~(j < n) THEN <<>>
  ELSE <<GroupRuns(stream, cur, lentype[GroupIndex(group, j) + 1],
                   particle_keys)>>
       \o FragmentRuns(stream,
                       cur + SumLen(GroupRuns(stream, cur,
                                      lentype[GroupIndex(group, j) + 1],
                                      particle_keys)),
                       lentype, group + 1, j + 1, n)

RECURSIVE LoadIdsFrom(_, _, _, _, _)
LoadIdsFrom(fs, h, i, group, acc) ==
  IF ~(i < h.ntask) THEN acc
  ELSE IF IdsName(i) \notin DOMAIN fs THEN [acc EXCEPT !.err = "IOError"]
  ELSE LoadIdsFrom(fs, h, i + 1, group + h.ngroups[i + 1],
         [ids |-> acc.ids
                  \o FragmentRuns(fs[IdsName(i)], 0, h.arrays["grouplentype"],
                                  group, 0, h.ngroups[i + 1]),
          consumed |->
            Append(acc.consumed,
                   SumLen(Flatten(FragmentRuns(fs[IdsName(i)], 0,
                                    h.arrays["grouplentype"], group, 0,
                                    h.ngroups[i + 1])))),
          err |-> "none"])

FofLoadIds ==
  /\ pc = "fof_catalogue"
  /\ \E r \in {LoadIdsFrom(disk, sim, 0, 0,
                           [ids |-> <<>>, consumed |-> <<>>, err |-> "none"])} :
       /\ sim' = [sim EXCEPT !.ids = r.ids]
       /\ last' = [op |-> "_load_ids", err |-> r.err, consumed |-> r.consumed]
       /\ pc' = IF r.err = "none" THEN "fof_loaded" ELSE "failed"
  /\ UNCHANGED <<disk, gen>>

(***************************************************************************)
(* SpecFof: Fof.__init__ on a catalogue of up to MaxFragments fragments,   *)
(* each holding zero, one or two groups; every stream holds the            *)
(* identifiers its table declares.                                         *)
(***************************************************************************)
GroupShapes ==
  {[t \in Types |-> 0],
   [t \in Types |-> IF t = "gas" THEN 1 ELSE 0],
   [t \in Types |-> IF t = "gas" THEN 2 ELSE IF t = "stars" THEN 1 ELSE 0]}

FragmentShapes ==
  {<<>>} \cup {<<a>> : a \in GroupShapes}
  \cup {<<a, b>> : a, b \in GroupShapes}

GroupLen(lentype) == SumKeys(particle_keys, lentype)

RECURSIVE TableLen(_)
TableLen(shapes) ==
  IF shapes = <<>> THEN 0 ELSE GroupLen(Head(shapes)) + TableLen(Tail(shapes))

FofTable(shapes, i, ntask, totngroups) ==
  [ngroups |-> Len(shapes), nids |-> TableLen(shapes),
   totngroups |-> totngroups, ntask |-> ntask,
   groups |-> [j \in DOMAIN shapes |-> [frag |-> i, lentype |-> shapes[j]]]]

FofStream(shapes, i) == [p \in 1..TableLen(shapes) |-> 10 * i + p]

InitFof ==
  \E ntask \in 1..MaxFragments :
    \E shapes \in [0..(ntask - 1) -> FragmentShapes] :
      /\ disk =
           [n \in {TabName(i) : i \in 0..(ntask - 1)}
                  \cup {IdsName(i) : i \in 0..(ntask - 1)} |->
              IF \E i \in 0..(ntask - 1) : n = TabName(i)
              THEN FofTable(shapes[CHOOSE i \in 0..(ntask - 1) :
                                     n = TabName(i)],
                            CHOOSE i \in 0..(ntask - 1) : n = TabName(i),
                            ntask,
                            SumLen([i \in 1..ntask |-> shapes[i - 1]]))
              ELSE FofStream(shapes[CHOOSE i \in 0..(ntask - 1) :
                                      n = IdsName(i)],
                             CHOOSE i \in 0..(ntask - 1) : n = IdsName(i))]
      /\ sim = [totngroups |-> 0, ntask |-> 0, ngroups |-> <<>>,
                nids |-> <<>>, arrays |-> EmptyDict, ids |-> <<>>]
      /\ last = [op |-> "init", err |-> "none"]
      /\ gen = NoGen
      /\ pc = "fof_new"

NextFof == FofReadHeader \/ FofLoadCatalogue \/ FofLoadIds

SpecFof == InitFof /\ [][NextFof]_vars

DiskGroups(ntask) ==
  Flatten([i \in 1..ntask |-> disk[TabName(i - 1)].groups])

(***************************************************************************)
(* C15: for every sequence of per-fragment group counts, fragments of 0    *)
(* groups included, _load_catalogue completes and each of the six arrays   *)
(* holds the rows of all fragments, in fragment order and in-file order.   *)
(***************************************************************************)
C15_CatalogueConcatenated ==
  (pc \in {"fof_catalogue", "fof_loaded", "failed"}
   /\ last.op \in {"_load_catalogue", "_load_ids"}) =>
    /\ pc # "failed"
    /\ \A k \in Range(array_keys) :
         /\ k \in DOMAIN sim.arrays
         /\ Len(sim.arrays[k]) = SumLen([i \in 1..sim.ntask |->
                                           disk[TabName(i - 1)].groups])
         /\ \A g \in DOMAIN sim.arrays[k] :
              sim.arrays[k][g] =
                IF k = "grouplentype" THEN DiskGroups(sim.ntask)[g].lentype
                ELSE [key |-> k, frag |-> DiskGroups(sim.ntask)[g].frag,
                      row |-> Cardinality({x \in 1..g :
                                 DiskGroups(sim.ntask)[x].frag =
                                   DiskGroups(sim.ntask)[g].frag})]

(***************************************************************************)
(* C16: _load_ids produces one membership entry per group, entry g holding *)
(* for each particle type a run of exactly grouplentype[g, type]           *)
(* identifiers; the runs of a fragment are consecutive in its stream, in   *)
(* (group, type) order, and their lengths sum to the identifiers consumed. *)
(***************************************************************************)
FragmentFirst(i) == SumLen([x \in 1..i |-> disk[TabName(x - 1)].groups])

SubfindReadHeader ==
  /\ pc = "sub_new"
  /\ sim' = [sim EXCEPT !.totngroups = disk[FragName("sub_tab", 0)].totngroups,
                        !.ntask = 1,
                        !.ngroups = <<disk[FragName("sub_tab", 0)].ngroups>>,
                        !.nids = <<disk[FragName("sub_tab", 0)].nids>>,
                        !.nsubhalos =
                           <<disk[FragName("sub_tab", 0)].nsubhalos>>]
  /\ last' = [op |-> "_read_header", err |-> "none"]
  /\ pc' = "sub_header"
  /\ UNCHANGED <<disk, gen>>

(***************************************************************************)
(* Subfind._load_catalogue, the two arrays _load_ids uses.                 *)
(***************************************************************************)
SubfindLoadCatalogue ==
  /\ pc = "sub_header"
  /\ sim' = [sim EXCEPT
               !.sublen = SubSeq(disk[FragName("sub_tab", 0)].sublen, 1,
                                 sim.nsubhalos[1]),
               !.suboffset = SubSeq(disk[FragName("sub_tab", 0)].suboffset, 1,
                                    sim.nsubhalos[1])]
  /\ last' = [op |-> "_load_catalogue", err |-> "none"]
  /\ pc' = "sub_catalogue"
  /\ UNCHANGED <<disk, gen>>

(***************************************************************************)
(* Subfind._load_ids: nids identifiers are read from the stream and one    *)
(* slice all_ids[nmin:nmax] is stored per subhalo.                         *)
(***************************************************************************)
Slice(all_ids, nmin, nmax) ==
  SubSeq(all_ids, Min(nmin, Len(all_ids)) + 1, Min(nmax, Len(all_ids)))

SubhaloRuns(all_ids, suboffset, sublen, nsubhalos) ==
  [sub \in 1..nsubhalos |->
     Slice(all_ids, suboffset[sub], suboffset[sub] + sublen[sub])]

SubfindLoadIds ==
  /\ pc = "sub_catalogue"
  /\ \E all_ids \in {FromFile(disk[FragName("sub_ids", 0)], 0, sim.nids[1])} :
       /\ sim' = [sim EXCEPT !.ids = SubhaloRuns(all_ids, sim.suboffset,
                                                 sim.sublen, sim.nsubhalos[1])]
       /\ last' = [op |-> "_load_ids", err |-> "none", nread |-> Len(all_ids)]
  /\ pc' = "sub_loaded"
  /\ UNCHANGED <<disk, gen>>

(***************************************************************************)
(* SpecSubfind: Subfind.__init__ on a catalogue of up to MaxSubhalos       *)
(* subhaloes of 0, 1 or 2 identifiers each.  The subhaloes follow each     *)
(* other in the stream, after lead identifiers bound to no subhalo; the    *)
(* stream file holds the declared identifiers or is cut short.             *)
(***************************************************************************)
SubhaloLens == UNION {[1..n -> 0..2] : n \in 0..MaxSubhalos}

SubfindTable(lens, lead, trail) ==
  [totngroups |-> 1, ntask |-> 1, ngroups |-> 1,
   nids |-> lead + SumLen([x \in DOMAIN lens |-> [y \in 1..lens[x] |-> 0]])
            + trail,
   nsubhalos |-> Len(lens), sublen |-> lens,
   suboffset |->
     [s \in DOMAIN lens |->
        lead + SumLen([x \in 1..(s - 1) |-> [y \in 1..lens[x] |-> 0]])]]

InitSubfind ==
  \E lens \in SubhaloLens, lead \in 0..1, trail \in 0..1, cut \in 0..1 :
    /\ SubfindTable(lens, lead, trail).nids - cut >= 0
    /\ disk =
         [n \in {FragName("sub_tab", 0), FragName("sub_ids", 0)} |->
            IF n = FragName("sub_tab", 0)
            THEN SubfindTable(lens, lead, trail)
            ELSE [q \in 1..(SubfindTable(lens, lead, trail).nids - cut) |->
                    q - 1]]
    /\ sim = [totngroups |-> 0, ntask |-> 0, ngroups |-> <<>>, nids |-> <<>>,
              nsubhalos |-> <<>>, sublen |-> <<>>, suboffset |-> <<>>,
              ids |-> <<>>]
    /\ last = [op |-> "init", err |-> "none"]
    /\ gen = NoGen
    /\ pc = "sub_new"

NextSubfind == SubfindReadHeader \/ SubfindLoadCatalogue \/ SubfindLoadIds

SpecSubfind == InitSubfind /\ [][NextSubfind]_vars

(***************************************************************************)
(* C17: after Subfind._load_ids the run of every subhalo s has length      *)
(* sublen[s] and holds the stream positions suboffset[s] up to             *)
(* suboffset[s] + sublen[s]; no subhalo is given a shorter run because the *)
(* stream ended, and the runs of consecutive subhaloes do not overlap.     *)
(***************************************************************************)
C17_RunsCoverOffsets ==
  pc = "sub_loaded" =>
    /\ Len(sim.ids) = sim.nsubhalos[1]
    /\ \A s \in DOMAIN sim.ids :
         /\ Len(sim.ids[s]) = sim.sublen[s]
         /\ sim.ids[s] = [k \in 1..sim.sublen[s] |-> sim.suboffset[s] + k - 1]
    /\ \A s \in DOMAIN sim.ids :
         (s + 1) \in DOMAIN sim.ids =>
           Range(sim.ids[s]) \cap Range(sim.ids[s + 1]) = {}

(***************************************************************************)
(* C18: every format error the snapshot reader raises (header sentinel,    *)
(* trailing header marker, block marker in the construction-time check,    *)
(* block marker in read_block) carries both the name of the file being     *)
(* read and the block, or the header, being read.                          *)
(***************************************************************************)
C18_ErrorNamesFileAndBlock ==
  (pc \in {"failed", "done"} /\ last.op \in {"construct", "read_block"}
   /\ last.err \in {"NameError_header", "NameError_block"}) =>
    /\ last.msg.file = sim.name
    /\ last.msg.what \in {"header", last.bt, "id"}

(***************************************************************************)
(* C20: for every header, flag combination and identifier width, every     *)
(* block of computed size > 0 and every particle type of its domain, the   *)
(* triple of _compute_offset satisfies offset + read_size + remainder =    *)
(* the block size of _file_structure, so the seek past the remainder ends  *)
(* at the trailing marker.                                                 *)
(***************************************************************************)
C20_TripleSpansBlock ==
  (pc = "done" /\ last.op = "compute_offset" /\ last.err = "none"
   /\ last.bt \in DOMAIN sim.block_sizes /\ sim.block_sizes[last.bt] > 0) =>
    last.offset + last.read_size + last.remainder = sim.block_sizes[last.bt]

C20_Witness ==
  /\ pc = "done" /\ last.op = "compute_offset" /\ last.err = "none"
  /\ last.bt = "mass" /\ last.pt = "halo"
  /\ sim.particle_numbers = ScenarioCounts
  /\ sim.particle_mass["gas"] # 0
  /\ sim.block_sizes["mass"] = 240
  /\ last.offset = 0 /\ last.read_size = 200 /\ last.remainder = 40

(***************************************************************************)
(* SpecReread: a caller constructs a handle, reads a block, the snapshot   *)
(* file is rewritten by another program and the caller reads a block       *)
(* again through the same handle.  The rewritten file is well-formed for   *)
(* the externally declared blocks and the identifier width of the handle;  *)
(* its counts, header flags and byte order may differ.  The replaced file  *)
(* is kept under the name "snap~", which no operation reads.               *)
(***************************************************************************)
InitReread ==
  \E two \in BOOLEAN, mz \in BOOLEAN, order \in {"<", ">"} :
    Start(DiskFile(FragCounts(two), [t \in Types |-> IF mz THEN 0 ELSE 1],
                   AllFlags, FALSE, 0, order, 1),
          "snap", FALSE, FALSE, AllFlags)

Rewrite(c, fl, order) ==
  /\ pc = "done"
  /\ last.op = "read_block"
  /\ DOMAIN disk = {sim.name}
  /\ disk' = [n \in {sim.name, sim.name \o "~"} |->
                IF n = sim.name
                THEN DiskFile(c, disk[sim.name].mass, ExtFlags \cup fl,
                              sim.use_longids, 0, order, 1)
                ELSE disk[sim.name]]
  /\ last' = [NoOp EXCEPT !.op = "rewrite"]
  /\ pc' = "ready"
  /\ UNCHANGED <<sim, gen>>

NextReread ==
  \/ \E skip_file_check \in BOOLEAN : Construct(skip_file_check)
  \/ \E block_type \in DataBlocks, particle_type \in Types :
       ReadBlockCall(block_type, particle_type)
  \/ \E c \in Counts(MaxFileParticles), fl \in {HeaderFlags, {}},
        order \in {"<", ">"} : Rewrite(c, fl, order)

SpecReread == InitReread /\ [][NextReread]_vars

(***************************************************************************)
(* C19: every read_block call parses the header again and recomputes all   *)
(* block sizes before it locates the block.  After the file was rewritten  *)
(* with other particle counts or header flags, the next call on the same   *)
(* handle has the block sizes, the offset and the rows of a handle freshly *)
(* built on the new file, and no entry of the old sizes survives.          *)
(***************************************************************************)
FreshHandle ==
  ReadHeader(NoSim(sim.basename, sim.multiple_files, sim.use_longids,
                   {k \in ExtFlags : sim.flags[k]}), disk).sim

SameOrderAsBefore ==
  (sim.name \o "~") \in DOMAIN disk =>
    disk[sim.name \o "~"].order = disk[sim.name].order

RereadOutcome ==
  /\ sim.particle_numbers = FreshHandle.particle_numbers
  /\ sim.flags = FreshHandle.flags
  /\ sim.block_sizes = FreshHandle.block_sizes
  /\ sim.block_sizes = FileStructure(sim)
  /\ last.err = ReadBlock(FreshHandle, disk, last.bt, last.pt).err
  /\ last.skip = ReadBlock(FreshHandle, disk, last.bt, last.pt).skip
  /\ last.start = ReadBlock(FreshHandle, disk, last.bt, last.pt).start
  /\ last.nbytes = ReadBlock(FreshHandle, disk, last.bt, last.pt).nbytes
  /\ last.rows = ReadBlock(FreshHandle, disk, last.bt, last.pt).rows

C19_RereadUsesNewHeader == ReadDone => RereadOutcome

(***************************************************************************)
(* What does hold: the outcome is that of a fresh handle whenever the      *)
(* rewritten file has the byte order of the file it replaced.              *)
(***************************************************************************)
RereadWithSameOrder == (ReadDone /\ SameOrderAsBefore) => RereadOutcome

RereadChangedHeader ==
  /\ ReadDone
  /\ (sim.name \o "~") \in DOMAIN disk
  /\ disk[sim.name \o "~"].order = disk[sim.name].order
  /\ disk[sim.name \o "~"].npart["gas"] = 1
  /\ disk[sim.name \o "~"].hflags["sfr"] = 1
  /\ sim.particle_numbers["gas"] = 0
  /\ sim.particle_numbers["halo"] = 1
  /\ "sfr" \notin DOMAIN sim.block_sizes
  /\ last.bt = "pos" /\ last.pt = "halo"
  /\ last.err = "none" /\ last.rows = 1

(***************************************************************************)
(* C21: a spanning read leaves the originating handle as it was: across    *)
(* every resumption of read_block_iter, whatever the fragment's header     *)
(* declares, the handle's name, particle_numbers, particle_mass,           *)
(* block_sizes and flags keep the values they had before the resumption,   *)
(* hence the values they had when the iteration started.                   *)
(***************************************************************************)
C21_IterationLeavesHandle ==
  [][pc = "iterating" =>
       /\ sim'.name = sim.name
       /\ sim'.particle_numbers = sim.particle_numbers
       /\ sim'.particle_mass = sim.particle_mass
       /\ sim'.block_sizes = sim.block_sizes
       /\ sim'.flags = sim.flags]_vars

(***************************************************************************)
(* What does hold: the attributes that _read_header rebinds on the copy    *)
(* (lines 206-214, 299) stay as they were on the originating handle.  The  *)
(* flags dictionary is created once (line 123) and written in place        *)
(* (lines 223-262), and copy() at line 470 does not duplicate it.          *)
(***************************************************************************)
IterationKeepsReboundFields ==
  [][pc = "iterating" =>
       /\ sim'.name = sim.name
       /\ sim'.particle_numbers = sim.particle_numbers
       /\ sim'.particle_mass = sim.particle_mass
       /\ sim'.block_sizes = sim.block_sizes]_vars

====
